---- MODULE Spec2Model ----
(***************************************************************************)
(* Model of src/core/main.py: the Session ledger (balance, trade history,  *)
(* streak counters, stop conditions, statistics) and the BinOptTUI.run     *)
(* loop that drives it from key events.                                    *)
(*                                                                         *)
(* Numbers.  Money is an integer count of hundredths of a currency unit    *)
(* (2000.00 is 200000); percentages are whole percents.  Python's          *)
(* x * (p / 100.0) is modelled as (x * p) \div 100, and comparisons of     *)
(* quotients are made exactly, by cross-multiplication.  IEEE rounding of  *)
(* the last bit of a double is outside the model.                          *)
(* Trade.timestamp and Session.start_time are wall-clock readings that no  *)
(* operation branches on; they are left out of the records.                *)
(***************************************************************************)
EXTENDS Integers, Sequences, FiniteSets, TLC

VARIABLES
    session,         \* BinOptTUI.session : the Session object
    scroll_offset,   \* BinOptTUI.scroll_offset
    status_message,  \* BinOptTUI.status_message
    command_buffer,  \* BinOptTUI.command_buffer, a sequence of characters
    mode,            \* BinOptTUI.mode : "NORMAL" or "COMMAND"
    pc,              \* position of BinOptTUI.run : "getch" or "done"
    screen,          \* the status line of the last frame drawn on the terminal
    ops              \* the last two Session operations called (observation only)

vars == <<session, scroll_offset, status_message, command_buffer, mode, pc,
          screen, ops>>

-----------------------------------------------------------------------------
(* Bounds of the model. *)

\* longest trade history explored when Session is driven directly
MaxHistory == 3

\* longest trade history explored when Session is driven by BinOptTUI.run
MaxLogged == 3

\* longest run of losses explored from a fresh session
MaxLossRun == 5

\* calls of undo_last_trade per session, at most
MaxUndos == 2

\* u keys per session in a run of BinOptTUI, at most
MaxKeyUndos == 1

\* command lines typed in a run of BinOptTUI (: keys), at most
MaxCommands == 1

-----------------------------------------------------------------------------
(* TradeResult, Trade *)

TradeResult == {"WIN", "LOSS", "PUSH"}

Trade(trade_type, risk_amount, result, payout, balance_after) ==
    [trade_type |-> trade_type, risk_amount |-> risk_amount, result |-> result,
     payout |-> payout, balance_after |-> balance_after]

profit_loss(t) ==
    IF t.result = "WIN" THEN t.payout
    ELSE IF t.result = "LOSS" THEN 0 - t.risk_amount
    ELSE 0

\* x * (p / 100.0)
PercentOf(x, p) == (x * p) \div 100

Max(a, b) == IF a >= b THEN a ELSE b
Min(a, b) == IF a <= b THEN a ELSE b

-----------------------------------------------------------------------------
(* Session *)

\* dict.get(key, default)
Get(config, key, default) ==
    IF key \in DOMAIN config THEN config[key] ELSE default

DefaultStopLossPercent == 20
DefaultMaxConsecutiveLosses == 5

Session(config) ==
    [initial_balance        |-> config["initial_balance"],
     risk_percent           |-> config["risk_percent"],
     payout_percent         |-> config["payout_percent"],
     stop_loss_percent      |-> Get(config, "stop_loss_percent", DefaultStopLossPercent),
     max_consecutive_losses |-> Get(config, "max_consecutive_losses",
                                    DefaultMaxConsecutiveLosses),
     current_balance        |-> config["initial_balance"],
     trades                 |-> << >>,
     consecutive_wins       |-> 0,
     consecutive_losses     |-> 0,
     max_balance            |-> config["initial_balance"],
     min_balance            |-> config["initial_balance"]]

\* the risk amount taken from the initial balance
current_risk_amount_of_initial(s) == PercentOf(s.initial_balance, s.risk_percent)

current_risk_amount(s) == PercentOf(s.current_balance, s.risk_percent)

\* An Optional[float] argument is << >> (None) or <<v>>.
None == << >>
Some(v) == <<v>>
Truthy(opt) == opt # << >> /\ opt[1] # 0

\* add_trade with the Trade built before the balance is updated
add_trade_stale_snapshot(s, result, trade_type, custom_risk) ==
    LET risk == IF Truthy(custom_risk) THEN custom_risk[1] ELSE current_risk_amount(s)
        payout == IF result = "WIN" THEN PercentOf(risk, s.payout_percent) ELSE 0
        balance == IF result = "WIN" THEN s.current_balance + payout
                   ELSE IF result = "LOSS" THEN s.current_balance - risk
                   ELSE s.current_balance
        trade == Trade(trade_type, risk, result, payout, s.current_balance)
    IN  [s EXCEPT !.current_balance = balance,
                  !.consecutive_wins = IF result = "WIN" THEN @ + 1
                                       ELSE IF result = "LOSS" THEN 0 ELSE @,
                  !.consecutive_losses = IF result = "WIN" THEN 0
                                         ELSE IF result = "LOSS" THEN @ + 1 ELSE @,
                  !.trades = Append(s.trades, trade),
                  !.max_balance = Max(s.max_balance, balance),
                  !.min_balance = Min(s.min_balance, balance)]

\* add_trade with a PUSH ending both streaks
add_trade_push_breaks_streak(s, result, trade_type, custom_risk) ==
    LET risk == IF Truthy(custom_risk) THEN custom_risk[1] ELSE current_risk_amount(s)
        payout == IF result = "WIN" THEN PercentOf(risk, s.payout_percent) ELSE 0
        balance == IF result = "WIN" THEN s.current_balance + payout
                   ELSE IF result = "LOSS" THEN s.current_balance - risk
                   ELSE s.current_balance
        trade == Trade(trade_type, risk, result, payout, balance)
    IN  [s EXCEPT !.current_balance = balance,
                  !.consecutive_wins = IF result = "WIN" THEN @ + 1 ELSE 0,
                  !.consecutive_losses = IF result = "LOSS" THEN @ + 1 ELSE 0,
                  !.trades = Append(s.trades, trade),
                  !.max_balance = Max(s.max_balance, balance),
                  !.min_balance = Min(s.min_balance, balance)]

add_trade(s, result, trade_type, custom_risk) ==
    LET risk == IF Truthy(custom_risk) THEN custom_risk[1] ELSE current_risk_amount(s)
        payout == IF result = "WIN" THEN PercentOf(risk, s.payout_percent) ELSE 0
        balance == IF result = "WIN" THEN s.current_balance + payout
                   ELSE IF result = "LOSS" THEN s.current_balance - risk
                   ELSE s.current_balance
        wins == IF result = "WIN" THEN s.consecutive_wins + 1
                ELSE IF result = "LOSS" THEN 0
                ELSE s.consecutive_wins
        losses == IF result = "WIN" THEN 0
                  ELSE IF result = "LOSS" THEN s.consecutive_losses + 1
                  ELSE s.consecutive_losses
        trade == Trade(trade_type, risk, result, payout, balance)
    IN  [s EXCEPT !.current_balance = balance,
                  !.consecutive_wins = wins,
                  !.consecutive_losses = losses,
                  !.trades = Append(s.trades, trade),
                  !.max_balance = Max(s.max_balance, balance),
                  !.min_balance = Min(s.min_balance, balance)]

\* the loop without its two break statements on a streak of the other kind
RECURSIVE scan_streaks_no_break(_, _, _, _)
scan_streaks_no_break(trades, i, w, l) ==
    IF i = 0 THEN <<w, l>>
    ELSE IF trades[i].result = "WIN"
         THEN scan_streaks_no_break(trades, i - 1, w + 1, l)
    ELSE IF trades[i].result = "LOSS"
         THEN scan_streaks_no_break(trades, i - 1, w, l + 1)
    ELSE <<w, l>>

\* The loop of _recalculate_streaks over reversed(trades): i is the index of
\* the trade being visited, w and l the counters so far; <<w, l>> at the end.
RECURSIVE scan_streaks(_, _, _, _)
scan_streaks(trades, i, w, l) ==
    IF i = 0 THEN <<w, l>>
    ELSE IF trades[i].result = "WIN"
         THEN IF l > 0 THEN <<w, l>> ELSE scan_streaks(trades, i - 1, w + 1, l)
    ELSE IF trades[i].result = "LOSS"
         THEN IF w > 0 THEN <<w, l>> ELSE scan_streaks(trades, i - 1, w, l + 1)
    ELSE <<w, l>>

recalculate_streaks(s) ==
    LET r == scan_streaks(s.trades, Len(s.trades), 0, 0)
    IN  [s EXCEPT !.consecutive_wins = r[1], !.consecutive_losses = r[2]]

\* undo_last_trade returning True on an empty history too
undo_returns_always(s) == TRUE

\* The return value of undo_last_trade.
undo_returns(s) == s.trades # << >>

\* undo_last_trade without the restoring of current_balance
undo_last_trade_keeps_balance(s) ==
    IF s.trades = << >> THEN s
    ELSE recalculate_streaks(
             [s EXCEPT !.trades = SubSeq(s.trades, 1, Len(s.trades) - 1)])

\* undo_last_trade with min_balance and max_balance recomputed from the
\* trades left in the history
undo_last_trade_restores_extremes(s) ==
    IF s.trades = << >> THEN s
    ELSE LET rest == SubSeq(s.trades, 1, Len(s.trades) - 1)
             balance == IF Len(rest) > 0 THEN rest[Len(rest)].balance_after
                        ELSE s.initial_balance
             seen == {s.initial_balance} \cup {rest[i].balance_after : i \in 1..Len(rest)}
         IN  recalculate_streaks(
                 [s EXCEPT !.trades = rest,
                           !.current_balance = balance,
                           !.max_balance = CHOOSE b \in seen : \A o \in seen : b >= o,
                           !.min_balance = CHOOSE b \in seen : \A o \in seen : b <= o])

\* undo_last_trade removing the oldest trade
undo_last_trade_pops_head(s) ==
    IF s.trades = << >> THEN s
    ELSE LET rest == Tail(s.trades)
             balance == IF Len(rest) > 0 THEN rest[Len(rest)].balance_after
                        ELSE s.initial_balance
         IN  recalculate_streaks([s EXCEPT !.trades = rest,
                                            !.current_balance = balance])

\* The Session after undo_last_trade.
undo_last_trade(s) ==
    IF s.trades = << >> THEN s
    ELSE LET rest == SubSeq(s.trades, 1, Len(s.trades) - 1)
             balance == IF Len(rest) > 0 THEN rest[Len(rest)].balance_after
                        ELSE s.initial_balance
         IN  recalculate_streaks([s EXCEPT !.trades = rest,
                                            !.current_balance = balance])

\* A status or reason text: the fixed words, the number formatted into them
\* (0 when there is none) and the word formatted into them (<< >> when none).
Text(text, num, word) == [text |-> text, num |-> num, word |-> word]
Msg(text) == Text(text, 0, << >>)

\* n / d rounded to the nearest integer (the rounding of a format spec), d > 0
RoundDiv(n, d) == (2 * n + d) \div (2 * d)

\* drawdown_percent in tenths of a percent, as "{drawdown_percent:.1f}" shows it
drawdown_tenths(s) ==
    RoundDiv((s.initial_balance - s.current_balance) * 1000, s.initial_balance)

\* drawdown_percent >= stop_loss_percent, with initial_balance > 0
drawdown_reached(s) ==
    (s.initial_balance - s.current_balance) * 100
        >= s.stop_loss_percent * s.initial_balance

\* should_stop with its two checks in the other order
should_stop_losses_first(s) ==
    IF s.consecutive_losses >= s.max_consecutive_losses
    THEN <<TRUE, Text("Max consecutive losses: ", s.consecutive_losses, << >>)>>
    ELSE IF drawdown_reached(s)
    THEN <<TRUE, Text("Stop-loss triggered: -%", drawdown_tenths(s), << >>)>>
    ELSE <<FALSE, Msg("")>>

\* should_stop with > for >= in the check of consecutive losses
should_stop_strict_losses(s) ==
    IF drawdown_reached(s)
    THEN <<TRUE, Text("Stop-loss triggered: -%", drawdown_tenths(s), << >>)>>
    ELSE IF s.consecutive_losses > s.max_consecutive_losses
    THEN <<TRUE, Text("Max consecutive losses: ", s.consecutive_losses, << >>)>>
    ELSE <<FALSE, Msg("")>>

\* <<flag, reason>>
should_stop(s) ==
    IF drawdown_reached(s)
    THEN <<TRUE, Text("Stop-loss triggered: -%", drawdown_tenths(s), << >>)>>
    ELSE IF s.consecutive_losses >= s.max_consecutive_losses
    THEN <<TRUE, Text("Max consecutive losses: ", s.consecutive_losses, << >>)>>
    ELSE <<FALSE, Msg("")>>


\* sum(f(t) for t in trades if t.result = result)
RECURSIVE SumOver(_, _, _)
SumOver(trades, result, field) ==
    IF trades = << >> THEN 0
    ELSE LET t == Head(trades)
         IN  (IF t.result = result THEN t[field] ELSE 0)
                 + SumOver(Tail(trades), result, field)

\* len([t for t in trades if t.result == result])
Count(trades, result) ==
    Cardinality({i \in 1..Len(trades) : trades[i].result = result})

\* stats(): counts and current_streak are integers, money is in hundredths,
\* and every rate (win_rate, roi_percent, max_drawdown_percent, breakeven_wr)
\* is in hundredths of a percent, rounded down.
stats(s) ==
    IF s.trades = << >>
    THEN [total_trades |-> 0, wins |-> 0, losses |-> 0, pushes |-> 0,
          win_rate |-> 0, total_pl |-> 0, roi_percent |-> 0, expectancy |-> 0,
          avg_win |-> 0, avg_loss |-> 0, max_drawdown_percent |-> 0,
          current_streak |-> 0, breakeven_wr |-> 0]
    ELSE LET total_trades == Len(s.trades)
             win_count == Count(s.trades, "WIN")
             loss_count == Count(s.trades, "LOSS")
             win_rate == (win_count * 10000) \div total_trades
             total_pl == s.current_balance - s.initial_balance
             avg_win == IF win_count > 0
                        THEN SumOver(s.trades, "WIN", "payout") \div win_count
                        ELSE 0
             avg_loss == IF loss_count > 0
                         THEN SumOver(s.trades, "LOSS", "risk_amount") \div loss_count
                         ELSE 0
         IN  [total_trades |-> total_trades,
              wins |-> win_count,
              losses |-> loss_count,
              pushes |-> Count(s.trades, "PUSH"),
              win_rate |-> win_rate,
              total_pl |-> total_pl,
              roi_percent |-> (total_pl * 10000) \div s.initial_balance,
              expectancy |-> (win_rate * avg_win - (10000 - win_rate) * avg_loss)
                                \div 10000,
              avg_win |-> avg_win,
              avg_loss |-> avg_loss,
              max_drawdown_percent |->
                  ((s.initial_balance - s.min_balance) * 10000) \div s.initial_balance,
              current_streak |-> IF s.consecutive_wins > 0 THEN s.consecutive_wins
                                 ELSE 0 - s.consecutive_losses,
              breakeven_wr |-> 1000000 \div (100 + s.payout_percent)]

\* 'reset' with the stop conditions of the replaced Session passed on
reset_session_keeps_stops(s) ==
    Session([initial_balance |-> s.initial_balance,
             risk_percent    |-> s.risk_percent,
             payout_percent  |-> s.payout_percent,
             stop_loss_percent |-> s.stop_loss_percent,
             max_consecutive_losses |-> s.max_consecutive_losses])

\* handle_command, 'reset': a new Session from three of the current fields
reset_session(s) ==
    Session([initial_balance |-> s.initial_balance,
             risk_percent    |-> s.risk_percent,
             payout_percent  |-> s.payout_percent])

\* handle_command, 'risk': self.session.risk_percent = float(parts[1])
set_risk_percent(s, v) == [s EXCEPT !.risk_percent = v]

\* handle_command, 'payout': self.session.payout_percent = float(parts[1])
set_payout_percent(s, v) == [s EXCEPT !.payout_percent = v]

-----------------------------------------------------------------------------
(* Configurations a session is constructed from (the dict load_config returns
   or reads from the YAML file). *)

\* the dict load_config returns when there is no file
DefaultConfig ==
    [initial_balance |-> 200000, risk_percent |-> 5, payout_percent |-> 80,
     stop_loss_percent |-> 20, max_consecutive_losses |-> 5]

\* a file with the required keys only
RequiredOnlyConfig ==
    [initial_balance |-> 100000, risk_percent |-> 20, payout_percent |-> 50]

\* a file that sets its own stop conditions
CustomStopConfig ==
    [initial_balance |-> 50000, risk_percent |-> 10, payout_percent |-> 100,
     stop_loss_percent |-> 19, max_consecutive_losses |-> 2]

Configs == {DefaultConfig, RequiredOnlyConfig, CustomStopConfig}

\* the configurations BinOptTUI is run with
TUIConfigs == {CustomStopConfig}

\* values given to the risk and payout commands
RiskValues == {2}
PayoutValues == {90}

\* custom_risk arguments of add_trade (BinOptTUI.run never passes one)
CustomRisks == {None, Some(0)}

-----------------------------------------------------------------------------
(* The controller's fields as BinOptTUI.__init__ sets them. *)

InitialStatus == Msg("Session Active")
BlankScreen ==
    [mode |-> "", status_message |-> Msg(""), command_buffer |-> << >>,
     stop_loss_amount |-> 0]

TUIInit ==
    /\ scroll_offset = 0
    /\ status_message = InitialStatus
    /\ command_buffer = << >>
    /\ mode = "NORMAL"
    /\ pc = "getch"
    /\ screen = BlankScreen

\* ops: the name of the last Session operation called ("undo_after_add" is a
\* successful undo_last_trade called right after add_trade), the number of
\* undo_last_trade calls made on the current Session object, the balance
\* and history the last add_trade found (kept until the operation after it,
\* and over an undo_last_trade that follows it directly), and the number of
\* command lines begun.
NoOps == [last |-> "", undos |-> 0, before |-> << >>, commands |-> 0]

Before(s) == <<[current_balance |-> s.current_balance, trades |-> s.trades]>>

UndoName(s) ==
    IF ~undo_returns(s) THEN "undo_empty"
    ELSE IF ops.last = "add_trade" THEN "undo_after_add"
    ELSE "undo"

-----------------------------------------------------------------------------
(* LedgerSpec: the Session driven directly through its methods and through
   the two attribute assignments and the replacement that handle_command
   makes, in any order. *)

tui == <<scroll_offset, status_message, command_buffer, mode, pc, screen>>

LedgerInit ==
    /\ \E config \in Configs : session = Session(config)
    /\ ops = NoOps
    /\ TUIInit

Record(result, custom_risk) ==
    /\ Len(session.trades) < MaxHistory
    /\ session' = add_trade(session, result, "CALL", custom_risk)
    /\ ops' = [ops EXCEPT !.last = "add_trade", !.before = Before(session)]
    /\ UNCHANGED tui

Undo ==
    /\ ops.undos < MaxUndos
    /\ session' = undo_last_trade(session)
    /\ ops' = [ops EXCEPT !.last = UndoName(session), !.undos = @ + 1,
                          !.before = IF ops.last = "add_trade" THEN @ ELSE << >>]
    /\ UNCHANGED tui

SetRisk(v) ==
    /\ session' = set_risk_percent(session, v)
    /\ ops' = [ops EXCEPT !.last = "risk", !.before = << >>]
    /\ UNCHANGED tui

SetPayout(v) ==
    /\ session' = set_payout_percent(session, v)
    /\ ops' = [ops EXCEPT !.last = "payout", !.before = << >>]
    /\ UNCHANGED tui

Reset ==
    /\ session' = reset_session(session)
    /\ ops' = [ops EXCEPT !.last = "reset", !.undos = 0, !.before = << >>]
    /\ UNCHANGED tui

LedgerNext ==
    \/ \E result \in TradeResult, custom_risk \in CustomRisks :
           Record(result, custom_risk)
    \/ Undo
    \/ \E v \in RiskValues : SetRisk(v)
    \/ \E v \in PayoutValues : SetPayout(v)
    \/ Reset

LedgerSpec == LedgerInit /\ [][LedgerNext]_vars

-----------------------------------------------------------------------------
(* LossRunSpec: a fresh Session whose max_consecutive_losses is 5, by default
   or by its configuration, on which add_trade(LOSS) is called repeatedly. *)

LossRunRisks == {1, 2, 5, 10, 50}
LossRunStopLosses == {10, 20, 25, 50}

LossRunConfigs ==
    LET required(r) ==
            [initial_balance |-> 200000, risk_percent |-> r, payout_percent |-> 80]
    IN  {required(r) : r \in LossRunRisks}
        \cup {required(r) @@ [stop_loss_percent |-> sl, max_consecutive_losses |-> 5] :
                  r \in LossRunRisks, sl \in LossRunStopLosses}

LossRunInit ==
    /\ \E config \in LossRunConfigs : session = Session(config)
    /\ ops = NoOps
    /\ TUIInit

RecordLoss ==
    /\ Len(session.trades) < MaxLossRun
    /\ session' = add_trade(session, "LOSS", "CALL", None)
    /\ ops' = [ops EXCEPT !.last = "add_trade", !.before = Before(session)]
    /\ UNCHANGED tui

LossRunNext == RecordLoss

LossRunSpec == LossRunInit /\ [][LossRunNext]_vars

-----------------------------------------------------------------------------
(* BinOptTUI.handle_command.  A command line is a sequence of characters. *)

Digits == {"0", "1", "2", "3", "4", "5", "6", "7", "8", "9"}

DigitValue(c) ==
    CASE c = "0" -> 0 [] c = "1" -> 1 [] c = "2" -> 2 [] c = "3" -> 3
      [] c = "4" -> 4 [] c = "5" -> 5 [] c = "6" -> 6 [] c = "7" -> 7
      [] c = "8" -> 8 [] c = "9" -> 9

\* cmd.strip().split(): the maximal runs of non-blank characters, in order.
\* i is the next character, word the run being read, parts the runs read.
RECURSIVE SplitFrom(_, _, _, _)
SplitFrom(cmd, i, word, parts) ==
    LET closed == IF word = << >> THEN parts ELSE Append(parts, word)
    IN  IF i > Len(cmd) THEN closed
        ELSE IF cmd[i] = " " THEN SplitFrom(cmd, i + 1, << >>, closed)
        ELSE SplitFrom(cmd, i + 1, Append(word, cmd[i]), parts)

Split(cmd) == SplitFrom(cmd, 1, << >>, << >>)

\* float(word) returns a number (it raises ValueError otherwise).  Of the
\* words float() accepts, the ones made of decimal digits are modelled.
IsFloat(word) == word # << >> /\ \A i \in 1..Len(word) : word[i] \in Digits

\* float(word) for a word of digits
RECURSIVE ParseFloat(_)
ParseFloat(word) ==
    IF word = << >> THEN 0
    ELSE 10 * ParseFloat(SubSeq(word, 1, Len(word) - 1)) + DigitValue(word[Len(word)])

\* float(word) for every word, reading a word float() rejects by its digits
float_digits_only(word) ==
    Some(ParseFloat(SelectSeq(word, LAMBDA c : c \in Digits)))

\* float(word) in a try block: <<v>> when it returns v, None when it raises
\* ValueError
float(word) == IF IsFloat(word) THEN Some(ParseFloat(word)) ELSE None

\* What handle_command returns ("QUIT" or "" for None) and what it leaves in
\* self.session and self.status_message.
Handled(result, s, status) ==
    [result |-> result, session |-> s, status_message |-> status]

handle_command(cmd, s, status) ==
    LET parts == Split(cmd)
        command == parts[1]
    IN  IF parts = << >> THEN Handled("", s, status)
        ELSE IF command \in {<<"q">>, <<"q", "u", "i", "t">>}
             THEN Handled("QUIT", s, status)
        ELSE IF command = <<"w">>
             THEN Handled("", s, Msg("Session saved (not implemented yet)"))
        ELSE IF command = <<"w", "q">>
             THEN Handled("QUIT", s, status)
        ELSE IF command = <<"r", "e", "s", "e", "t">>
             THEN Handled("", reset_session(s), Msg("Session reset"))
        ELSE IF command = <<"r", "i", "s", "k">> /\ Len(parts) > 1
             THEN IF float(parts[2]) # None
                  THEN Handled("", set_risk_percent(s, float(parts[2])[1]),
                               Text("Risk set to %", float(parts[2])[1], << >>))
                  ELSE Handled("", s, Msg("Invalid risk value"))
        ELSE IF command = <<"p", "a", "y", "o", "u", "t">> /\ Len(parts) > 1
             THEN IF float(parts[2]) # None
                  THEN Handled("", set_payout_percent(s, float(parts[2])[1]),
                               Text("Payout set to %", float(parts[2])[1], << >>))
                  ELSE Handled("", s, Msg("Invalid payout value"))
        ELSE IF command = <<"h", "e", "l", "p">>
             THEN Handled("", s,
                          Msg("w=win l=loss p=push dd=undo :q=quit :risk N :payout N"))
        ELSE Handled("", s, Text("Unknown command: ", 0, command))

-----------------------------------------------------------------------------
(* Key events.  A printable key is its character; the others are named. *)

\* the command lines the user types, character by character
Lines ==
    { << >>,
      <<"q">>,
      <<"w">>, <<"l">>, <<"p">>, <<"u">>, <<"j">>, <<"k">>, <<"g">>, <<"G">>,
      <<"w", "q">>,
      <<"h", "e", "l", "p">>,
      <<"r", "e", "s", "e", "t">>,
      <<"r", "i", "s", "k", " ", "2">>,
      <<"r", "i", "s", "k", " ", "x">>,
      <<"p", "a", "y", "o", "u", "t", " ", "9", "0">>,
      <<"p", "a", "y", "o", "u", "t", " ", "x">> }

\* 32 <= key <= 126, as far as the lines need them
Printable == UNION {{line[i] : i \in 1..Len(line)} : line \in Lines}

IsPrefix(p, line) == Len(p) <= Len(line) /\ SubSeq(line, 1, Len(p)) = p

\* keys that neither mode handles as a character: escape (27), enter (10),
\* backspace (127 or curses.KEY_BACKSPACE) and any other code, such as an arrow
SpecialKeys == {"ESC", "ENTER", "BACKSPACE", "KEY_UP"}

\* keys NORMAL mode has a branch for
NormalKeys == {"w", "l", "p", "u", "j", "k", "g", "G", ":", "q"}

-----------------------------------------------------------------------------
(* BinOptTUI.run.  The loop rests only in getch, so one action is the loop
   from one key read to the next: the dispatch of the key (lines 384-425),
   then, unless the dispatch left the loop, the next pass up to its getch:
   the frame is drawn (361-369) and the stop conditions are checked
   (371-377).  pc is "getch" while the loop waits for a key and "done" once
   it is left.  The initial state is the first pass up to its getch. *)

\* draw_status_bar: what the status line of a frame shows
draw_status_bar(m, status, buffer, s) ==
    IF m = "COMMAND"
    THEN [mode |-> m, status_message |-> Msg(""), command_buffer |-> buffer,
          stop_loss_amount |-> 0]
    ELSE [mode |-> m, status_message |-> status, command_buffer |-> << >>,
          stop_loss_amount |-> PercentOf(s.initial_balance, 100 - s.stop_loss_percent)]

\* f"SESSION STOPPED: {reason}"
Stopped(reason) == Text("SESSION STOPPED: " \o reason.text, reason.num, reason.word)

\* the check of lines 372-373 made for the stop-loss level alone
StopFound_drawdown_only(s) == drawdown_reached(s)

\* lines 372-373: the loop is left when should_stop returns True
StopFound(s) == should_stop(s)[1]

\* The pass that follows a dispatch, with the fields as the dispatch left
\* them: the frame is drawn from them; if a stop condition holds the status
\* message is set to the reason, the terminal is refreshed without a redraw
\* and the loop is left, else the loop waits in getch.
DrawAndCheck(s, offset, status, buffer, m) ==
    /\ session' = s
    /\ scroll_offset' = offset
    /\ command_buffer' = buffer
    /\ mode' = m
    /\ screen' = draw_status_bar(m, status, buffer, s)
    /\ status_message' = IF StopFound(s) THEN Stopped(should_stop(s)[2]) ELSE status
    /\ pc' = IF StopFound(s) THEN "done" ELSE "getch"

\* break: the loop is left with the fields as the dispatch left them and the
\* frame of the pass that read the key on the terminal
Break ==
    /\ pc' = "done"
    /\ UNCHANGED <<session, scroll_offset, status_message, command_buffer, mode,
                   screen, ops>>

\* KeyboardInterrupt raised in getch
Interrupt ==
    /\ pc = "getch"
    /\ Break

\* w, l, p in NORMAL mode
KeyTrade(result, logged) ==
    /\ pc = "getch"
    /\ mode = "NORMAL"
    /\ Len(session.trades) < MaxLogged
    /\ DrawAndCheck(add_trade(session, result, "CALL", None), scroll_offset,
                    Msg(logged), command_buffer, mode)
    /\ UNCHANGED ops

KeyWin == KeyTrade("WIN", "WIN logged")
KeyLoss == KeyTrade("LOSS", "LOSS logged")
KeyPush == KeyTrade("PUSH", "PUSH logged")

KeyUndo ==
    /\ pc = "getch"
    /\ mode = "NORMAL"
    /\ ops.undos < MaxKeyUndos
    /\ DrawAndCheck(undo_last_trade(session), scroll_offset,
                    IF undo_returns(session) THEN Msg("Last trade undone")
                    ELSE Msg("No trades to undo"),
                    command_buffer, mode)
    /\ ops' = [ops EXCEPT !.undos = @ + 1]

\* j, k, g, G in NORMAL mode
Scroll(offset) ==
    /\ pc = "getch"
    /\ mode = "NORMAL"
    /\ DrawAndCheck(session, offset, status_message, command_buffer, mode)
    /\ UNCHANGED ops

KeyDown == Scroll(Max(0, scroll_offset - 1))
KeyUp == Scroll(Min(Len(session.trades) - 1, scroll_offset + 1))
KeyTop == Scroll(0)
KeyBottom == Scroll(Len(session.trades) - 1)

KeyColon ==
    /\ pc = "getch"
    /\ mode = "NORMAL"
    /\ ops.commands < MaxCommands
    /\ DrawAndCheck(session, scroll_offset, status_message, << >>, "COMMAND")
    /\ ops' = [ops EXCEPT !.commands = @ + 1]

KeyQuit ==
    /\ pc = "getch"
    /\ mode = "NORMAL"
    /\ Break

\* a key no branch of the mode handles
KeyIgnored(key) ==
    /\ pc = "getch"
    /\ \/ mode = "NORMAL" /\ key \notin NormalKeys
       \/ mode = "COMMAND" /\ key \notin Printable \cup {"ESC", "ENTER", "BACKSPACE"}
    /\ DrawAndCheck(session, scroll_offset, status_message, command_buffer, mode)
    /\ UNCHANGED ops

\* escape handled as enter is: the buffered command is executed
CmdEscape_executes ==
    /\ pc = "getch"
    /\ mode = "COMMAND"
    /\ LET h == handle_command(command_buffer, session, status_message)
       IN  DrawAndCheck(h.session, scroll_offset, h.status_message, << >>, "NORMAL")
    /\ UNCHANGED ops

CmdEscape ==
    /\ pc = "getch"
    /\ mode = "COMMAND"
    /\ DrawAndCheck(session, scroll_offset, status_message, << >>, "NORMAL")
    /\ UNCHANGED ops

\* enter in COMMAND mode, when the user has typed one of Lines; a replaced
\* Session has had no undo yet
CmdEnter ==
    /\ pc = "getch"
    /\ mode = "COMMAND"
    /\ command_buffer \in Lines
    /\ LET h == handle_command(command_buffer, session, status_message)
       IN  /\ IF h.result = "QUIT"
              THEN /\ pc' = "done"
                   /\ session' = h.session
                   /\ status_message' = h.status_message
                   /\ command_buffer' = << >>
                   /\ mode' = "NORMAL"
                   /\ UNCHANGED <<scroll_offset, screen>>
              ELSE DrawAndCheck(h.session, scroll_offset, h.status_message,
                                << >>, "NORMAL")
           /\ ops' = IF h.status_message = Msg("Session reset")
                     THEN [ops EXCEPT !.undos = 0] ELSE ops

CmdBackspace ==
    /\ pc = "getch"
    /\ mode = "COMMAND"
    /\ DrawAndCheck(session, scroll_offset, status_message,
                    SubSeq(command_buffer, 1, Len(command_buffer) - 1), mode)
    /\ UNCHANGED ops

\* a printable key in COMMAND mode, with q handled as NORMAL mode handles it
CmdPrintable_q_quits(key) ==
    /\ pc = "getch"
    /\ mode = "COMMAND"
    /\ \E line \in Lines : IsPrefix(Append(command_buffer, key), line)
    /\ IF key = "q" THEN Break
       ELSE /\ DrawAndCheck(session, scroll_offset, status_message,
                            Append(command_buffer, key), mode)
            /\ UNCHANGED ops

\* a printable key in COMMAND mode; the user types towards one of Lines
CmdPrintable(key) ==
    /\ pc = "getch"
    /\ mode = "COMMAND"
    /\ \E line \in Lines : IsPrefix(Append(command_buffer, key), line)
    /\ DrawAndCheck(session, scroll_offset, status_message,
                    Append(command_buffer, key), mode)
    /\ UNCHANGED ops

\* BinOptTUI.__init__, then the first pass of run up to its getch
Init ==
    /\ \E config \in TUIConfigs : session = Session(config)
    /\ ops = NoOps
    /\ scroll_offset = 0
    /\ command_buffer = << >>
    /\ mode = "NORMAL"
    /\ screen = draw_status_bar("NORMAL", InitialStatus, << >>, session)
    /\ status_message = IF StopFound(session) THEN Stopped(should_stop(session)[2])
                        ELSE InitialStatus
    /\ pc = IF StopFound(session) THEN "done" ELSE "getch"

Next ==
    \/ Interrupt
    \/ KeyWin
    \/ KeyLoss
    \/ KeyPush
    \/ KeyUndo
    \/ KeyDown
    \/ KeyUp
    \/ KeyTop
    \/ KeyBottom
    \/ KeyColon
    \/ KeyQuit
    \/ \E key \in Printable \cup SpecialKeys : KeyIgnored(key)
    \/ CmdEscape
    \/ CmdEnter
    \/ CmdBackspace
    \/ \E key \in Printable : CmdPrintable(key)

Spec == Init /\ [][Next]_vars

-----------------------------------------------------------------------------
(* Properties of the Session ledger. *)

\* The balance a replay of the history from b yields.
RECURSIVE ReplayBalance(_, _)
ReplayBalance(b, trades) ==
    IF trades = << >> THEN b
    ELSE ReplayBalance(b + profit_loss(Head(trades)), Tail(trades))

UndoWasLast == ops.last \in {"undo", "undo_after_add"}

\* C1: after any sequence of record, undo and risk/payout changes since the
\* session was created or reset, current_balance is initial_balance plus the
\* profit/loss of the trades in the history (WIN +payout, LOSS -risk_amount,
\* PUSH 0).
C1_BalanceIsReplayOfHistory ==
    session.current_balance
        = ReplayBalance(session.initial_balance, session.trades)

\* C1 witness: a win and a loss are in the history, an undo has just removed a
\* later trade, and both settings have been changed.
C1_Witness ==
    /\ UndoWasLast
    /\ \E i, j \in 1..Len(session.trades) :
           session.trades[i].result = "WIN" /\ session.trades[j].result = "LOSS"
    /\ session.risk_percent \in RiskValues
    /\ session.payout_percent \in PayoutValues

\* The session a fresh Session reaches by record over the outcomes of trades.
RECURSIVE ReplayRecord(_, _)
ReplayRecord(s, trades) ==
    IF trades = << >> THEN s
    ELSE ReplayRecord(add_trade(s, Head(trades).result, Head(trades).trade_type, None),
                      Tail(trades))

ReplayedStreaks(s) ==
    LET r == ReplayRecord(reset_session(s), s.trades)
    IN  <<r.consecutive_wins, r.consecutive_losses>>

\* C2: after a successful undo, consecutive_wins and consecutive_losses are
\* the ones a fresh session gets by record over the trades left in the
\* history, PUSH trades included.
C2_UndoStreaksAreReplayed ==
    UndoWasLast =>
        <<session.consecutive_wins, session.consecutive_losses>>
            = ReplayedStreaks(session)

\* C3: record(X) directly followed by undo() restores current_balance and the
\* history (length and contents) to what they were before the record.
C3_UndoRevertsRecord ==
    ops.last = "undo_after_add" =>
        /\ session.current_balance = ops.before[1].current_balance
        /\ session.trades = ops.before[1].trades

\* C3 witness: a record on a non-empty history has just been undone.
C3_Witness ==
    /\ ops.last = "undo_after_add"
    /\ Len(session.trades) > 0
    /\ session.min_balance < session.current_balance

\* C4: at most one of consecutive_wins and consecutive_losses is nonzero, and
\* neither is negative.
C4_OneStreakAtATime ==
    /\ session.consecutive_wins >= 0
    /\ session.consecutive_losses >= 0
    /\ session.consecutive_wins = 0 \/ session.consecutive_losses = 0

\* C4 witness: an undo has recomputed a losing streak that follows a win.
C4_Witness ==
    /\ UndoWasLast
    /\ session.consecutive_losses > 0
    /\ \E i \in 1..Len(session.trades) : session.trades[i].result = "WIN"

\* current_balance <= initial_balance * (1 - stop_loss_percent / 100)
AtStopLossLevel(s) ==
    s.current_balance * 100 <= s.initial_balance * (100 - s.stop_loss_percent)

IsDrawdownReason(reason) == reason.text = "Stop-loss triggered: -%"
IsLossesReason(reason) == reason.text = "Max consecutive losses: "

FiveLossesFromFresh ==
    /\ session.max_consecutive_losses = 5
    /\ Len(session.trades) = 5
    /\ \A i \in 1..5 : session.trades[i].result = "LOSS"

\* C6 as stated: with max_consecutive_losses = 5, after five record(LOSS) on a
\* fresh session should_stop returns true with the consecutive-loss reason
\* citing 5, for any risk_percent and stop_loss_percent.
C6_FiveLossesReportLosses ==
    FiveLossesFromFresh =>
        should_stop(session) = <<TRUE, Text("Max consecutive losses: ", 5, << >>)>>

\* C6 amended: with max_consecutive_losses = 5, after five record(LOSS) on a
\* fresh session should_stop returns true; its reason is the consecutive-loss
\* reason citing 5 when the balance is still above the stop-loss level, and
\* the drawdown reason when it is not.
C6_FiveLossesStop ==
    FiveLossesFromFresh =>
        /\ should_stop(session)[1]
        /\ ~AtStopLossLevel(session) =>
               should_stop(session)[2] = Text("Max consecutive losses: ", 5, << >>)
        /\ AtStopLossLevel(session) => IsDrawdownReason(should_stop(session)[2])

\* C6 witness: five losses that leave the balance above the stop-loss level.
C6_Witness ==
    /\ FiveLossesFromFresh
    /\ ~AtStopLossLevel(session)
    /\ IsLossesReason(should_stop(session)[2])

\* C7: on an empty history stats() is zero in every count, rate, P/L, average,
\* expectancy, drawdown and streak field, and breakeven_wr is
\* 100 / (1 + payout_percent / 100) for the current payout_percent.
C7_EmptyStats ==
    session.trades = << >> =>
        LET st == stats(session)
        IN  /\ \A f \in DOMAIN st \ {"breakeven_wr"} : st[f] = 0
            /\ st.breakeven_wr = 1000000 \div (100 + session.payout_percent)

-----------------------------------------------------------------------------
(* Properties of the controller loop. *)

\* C8: a stop condition that holds after a pass has drawn its frame ends the
\* loop in that pass, and no key is dispatched in a state where a stop
\* condition holds: every step of the loop starts where should_stop is false.
C8_NoDispatchWhenStopped ==
    /\ [](should_stop(session)[1] => pc = "done")
    /\ [][~should_stop(session)[1]]_vars

\* C8 witness: the loop has ended on the consecutive-loss condition, found by
\* the pass that followed an l key.
C8_Witness ==
    /\ pc = "done"
    /\ should_stop(session)[1]
    /\ IsLossesReason(should_stop(session)[2])
    /\ status_message = Stopped(should_stop(session)[2])

\* C9: when the loop ends on a stop condition, the status message holding the
\* reason is on the last frame drawn.
C9_StopReasonIsRendered ==
    (pc = "done" /\ should_stop(session)[1]) =>
        /\ status_message = Stopped(should_stop(session)[2])
        /\ screen.status_message = status_message

\* command lines whose argument float() rejects, and the message of each
InvalidArgument ==
    [line \in {<<"r", "i", "s", "k", " ", "x">>,
               <<"p", "a", "y", "o", "u", "t", " ", "x">>} |->
        IF line[1] = "r" THEN Msg("Invalid risk value")
        ELSE Msg("Invalid payout value")]

\* C10: enter on "risk x" or "payout x" leaves the Session as it was (settings,
\* balance, history, streaks), sets the status message to the "Invalid ..."
\* text of the command, and the loop goes on in NORMAL mode.
C10_InvalidArgumentIsRecovered ==
    [][(CmdEnter /\ command_buffer \in DOMAIN InvalidArgument) =>
          /\ session' = session
          /\ status_message' = InvalidArgument[command_buffer]
          /\ mode' = "NORMAL"
          /\ pc' = "getch"]_vars

\* C10 witness: "risk x" has been executed on a session with trades, and the
\* loop waits for the next key in NORMAL mode.
C10_Witness ==
    /\ status_message = Msg("Invalid risk value")
    /\ session.trades # << >>
    /\ mode = "NORMAL"
    /\ pc = "getch"

\* C11: the u key on an empty history: undo_last_trade reports failure and
\* leaves the Session as it was, and the status message set ("No trades to
\* undo") is not the one a successful undo sets ("Last trade undone").
C11_UndoOnEmptyHistory ==
    [][KeyUndo =>
          IF session.trades = << >>
          THEN /\ ~undo_returns(session)
               /\ session' = session
               /\ status_message' = Msg("No trades to undo")
          ELSE /\ undo_returns(session)
               /\ pc' = "getch" => status_message' = Msg("Last trade undone")
               /\ status_message' # Msg("No trades to undo")]_vars

\* C11 witness: u has been pressed on an empty history.
C11_Witness ==
    /\ session.trades = << >>
    /\ status_message = Msg("No trades to undo")
    /\ ops.undos > 0
    /\ pc = "getch"

\* C12: the reset command leaves a Session with an empty history, all three
\* balances at initial_balance, both streak counters zero, stop_loss_percent 20
\* and max_consecutive_losses 5, and with the initial_balance, risk_percent
\* and payout_percent the replaced Session had.
C12_ResetGivesFreshSession ==
    [][Reset =>
          /\ session'.trades = << >>
          /\ session'.current_balance = session.initial_balance
          /\ session'.max_balance = session.initial_balance
          /\ session'.min_balance = session.initial_balance
          /\ session'.consecutive_wins = 0
          /\ session'.consecutive_losses = 0
          /\ session'.stop_loss_percent = 20
          /\ session'.max_consecutive_losses = 5
          /\ session'.initial_balance = session.initial_balance
          /\ session'.risk_percent = session.risk_percent
          /\ session'.payout_percent = session.payout_percent]_vars

\* C12 witness: a Session constructed with its own stop conditions has been
\* reset after trades and after a change of both settings.
C12_Witness ==
    /\ ops.last = "reset"
    /\ session.initial_balance = CustomStopConfig.initial_balance
    /\ session.risk_percent \in RiskValues
    /\ session.payout_percent \in PayoutValues
    /\ session.trades = << >>

\* C13: the mode starts as NORMAL; it goes from NORMAL to COMMAND only on the
\* : key and from COMMAND to NORMAL only on escape or enter, each time with
\* the command buffer left empty; and escape does not execute the buffer.
C13_ModeChanges ==
    /\ mode = "NORMAL"
    /\ [][/\ mode' # mode =>
                 /\ command_buffer' = << >>
                 /\ IF mode = "NORMAL" THEN mode' = "COMMAND" /\ KeyColon
                    ELSE mode' = "NORMAL" /\ (CmdEscape \/ CmdEnter)
          /\ KeyColon => mode' = "COMMAND" /\ command_buffer' = << >>
          /\ CmdEnter => mode' = "NORMAL" /\ command_buffer' = << >>
          /\ CmdEscape =>
                 /\ mode' = "NORMAL" /\ command_buffer' = << >>
                 /\ session' = session
                 /\ status_message' = status_message
                 /\ scroll_offset' = scroll_offset
                 /\ pc' = "getch"]_vars

\* C13 witness: a command line was begun on the first screen and left again
\* with nothing executed.
C13_Witness ==
    /\ mode = "NORMAL"
    /\ pc = "getch"
    /\ ops.commands > 0
    /\ status_message = InitialStatus
    /\ session.trades = << >>

\* the keys NORMAL mode records, undoes, scrolls and quits on
ActingKeys == {"w", "l", "p", "u", "j", "k", "g", "G", "q"}

\* C14: in COMMAND mode a key other than enter leaves the Session and the
\* scroll offset as they were, and each of w, l, p, u, j, k, g, G, q is
\* appended to the command buffer and the loop goes on in COMMAND mode.
C14_CommandModeKeysAreText ==
    [][/\ (mode = "COMMAND" /\ ~CmdEnter) =>
              session' = session /\ scroll_offset' = scroll_offset
       /\ \A key \in ActingKeys :
              CmdPrintable(key) =>
                  /\ command_buffer' = Append(command_buffer, key)
                  /\ session' = session
                  /\ scroll_offset' = scroll_offset
                  /\ mode' = "COMMAND"
                  /\ pc' = "getch"]_vars

\* C14 witness: G has been typed in COMMAND mode over a history of two trades
\* or more, and the scroll offset is still 0.
C14_Witness ==
    /\ mode = "COMMAND"
    /\ command_buffer = <<"G">>
    /\ Len(session.trades) >= 2
    /\ scroll_offset = 0
    /\ pc = "getch"

\* (initial_balance - min_balance) / initial_balance * 100, in hundredths of a
\* percent
DrawdownOfMin(s) ==
    ((s.initial_balance - s.min_balance) * 10000) \div s.initial_balance

\* a step that is a call of undo_last_trade
UndoStep == ops'.undos = ops.undos + 1

\* Over record, undo and setting changes max_balance never decreases and
\* min_balance never increases, and undo changes neither.
ExtremesAreKept ==
    ops'.last # "reset" =>
        /\ session'.max_balance >= session.max_balance
        /\ session'.min_balance <= session.min_balance
        /\ UndoStep =>
               /\ session'.max_balance = session.max_balance
               /\ session'.min_balance = session.min_balance

\* C15 as stated: undo never changes max_balance or min_balance, over record
\* and undo max_balance never decreases and min_balance never increases, and
\* after an undo max_drawdown_percent of stats() is the drawdown of
\* min_balance.
C15_DrawdownSurvivesUndo ==
    [][/\ ExtremesAreKept
       /\ (ops'.last # "reset" /\ UndoStep) =>
              stats(session').max_drawdown_percent = DrawdownOfMin(session')]_vars

\* C15 amended: as stated, with max_drawdown_percent the drawdown of
\* min_balance after an undo that leaves a trade in the history, and 0 after
\* an undo that empties it.
C15_DrawdownSurvivesUndoWithTrades ==
    [][/\ ExtremesAreKept
       /\ (ops'.last # "reset" /\ UndoStep) =>
              stats(session').max_drawdown_percent
                  = IF session'.trades # << >> THEN DrawdownOfMin(session') ELSE 0]_vars

\* C15 witness: after an undo the history is not empty and min_balance is
\* below the initial balance and every balance the history holds.
C15_Witness ==
    /\ UndoWasLast
    /\ session.trades # << >>
    /\ session.min_balance < session.initial_balance
    /\ \A i \in 1..Len(session.trades) :
           session.min_balance < session.trades[i].balance_after
    /\ stats(session).max_drawdown_percent > 0

\* the outcomes of a history, in order
Results(trades) == [i \in 1..Len(trades) |-> trades[i].result]

\* a session with initial_balance 2000, risk_percent 5 and payout_percent 80
IsScenario(s) ==
    /\ s.initial_balance = 200000
    /\ s.risk_percent = 5
    /\ s.payout_percent = 80

\* C16: with initial_balance 2000, risk 5 and payout 80 the first risk amount
\* is 100; record(WIN) gives payout 80, balance 2080 and consecutive_wins 1;
\* record(LOSS) after it risks 104 and gives balance 1976, consecutive_losses 1
\* and consecutive_wins 0; an undo after that gives balance 2080,
\* consecutive_wins 1, consecutive_losses 0 and a history of length 1.
C16_Scenario ==
    IsScenario(session) =>
        /\ session.trades = << >> => current_risk_amount(session) = 10000
        /\ Results(session.trades) = <<"WIN">> =>
               /\ session.trades[1].risk_amount = 10000
               /\ session.trades[1].payout = 8000
               /\ session.current_balance = 208000
               /\ session.consecutive_wins = 1
               /\ current_risk_amount(session) = 10400
        /\ Results(session.trades) = <<"WIN", "LOSS">> =>
               /\ session.trades[2].risk_amount = 10400
               /\ session.current_balance = 197600
               /\ session.consecutive_losses = 1
               /\ session.consecutive_wins = 0
        /\ (UndoWasLast /\ Results(session.trades) = <<"WIN">>) =>
               /\ session.current_balance = 208000
               /\ session.consecutive_wins = 1
               /\ session.consecutive_losses = 0
               /\ Len(session.trades) = 1

\* C16 witness: the WIN is in the history and the LOSS of 104 has just been
\* undone (min_balance still holds 1976).
C16_Witness ==
    /\ IsScenario(session)
    /\ ops.last = "undo_after_add"
    /\ Results(session.trades) = <<"WIN">>
    /\ session.min_balance = 197600

\* what record(result) does to the session it is called on
RecordEffect(result) ==
    LET risk == PercentOf(session.current_balance, session.risk_percent)
        n == Len(session.trades)
        last == session'.trades[n + 1]
    IN  /\ Len(session'.trades) = n + 1
        /\ SubSeq(session'.trades, 1, n) = session.trades
        /\ last.result = result
        /\ last.balance_after = session'.current_balance
        /\ result = "WIN" =>
               /\ session'.current_balance
                      = session.current_balance + PercentOf(risk, session.payout_percent)
               /\ session'.consecutive_wins = session.consecutive_wins + 1
               /\ session'.consecutive_losses = 0
        /\ result = "LOSS" =>
               /\ session'.current_balance = session.current_balance - risk
               /\ session'.consecutive_losses = session.consecutive_losses + 1
               /\ session'.consecutive_wins = 0
        /\ result = "PUSH" =>
               /\ session'.current_balance = session.current_balance
               /\ session'.consecutive_wins = session.consecutive_wins
               /\ session'.consecutive_losses = session.consecutive_losses

\* C17: record takes risk = current_balance * risk_percent / 100 before it
\* changes anything; WIN adds risk * payout_percent / 100 to the balance,
\* increments consecutive_wins and zeroes consecutive_losses; LOSS subtracts
\* risk, increments consecutive_losses and zeroes consecutive_wins; PUSH leaves
\* the balance and both counters; each appends one trade whose balance_after
\* is the new current_balance.
C17_RecordEffect ==
    [][\A result \in TradeResult :
           (\E custom_risk \in CustomRisks : Record(result, custom_risk)) =>
               RecordEffect(result)]_vars

\* C17 witness: a PUSH has just been recorded during a winning streak.
C17_Witness ==
    /\ ops.last = "add_trade"
    /\ Len(session.trades) >= 2
    /\ session.trades[Len(session.trades)].result = "PUSH"
    /\ session.consecutive_wins > 0

\* C18: outside reset the trades already in the history stay as they are and
\* where they are; record appends one trade, a successful undo removes the
\* last one, and an undo on an empty history and the risk and payout changes
\* leave the history as it is.
C18_HistoryChangesAtTail ==
    [][LET n == Len(session.trades)
           m == Len(session'.trades)
       IN  ops'.last # "reset" =>
               /\ \A i \in 1..Min(n, m) : session'.trades[i] = session.trades[i]
               /\ ops'.last = "add_trade" => m = n + 1
               /\ ops'.last \in {"undo", "undo_after_add"} => m = n - 1
               /\ ops'.last \in {"undo_empty", "risk", "payout"} => m = n]_vars

\* C18 witness: after a change of risk_percent and an undo, the history holds
\* a loss recorded under the old risk_percent followed by a win.
C18_Witness ==
    /\ UndoWasLast
    /\ Len(session.trades) = 2
    /\ Results(session.trades) = <<"LOSS", "WIN">>
    /\ session.risk_percent \in RiskValues
    /\ session.trades[1].risk_amount
           # PercentOf(session.initial_balance, session.risk_percent)

\* C19: in every state of the controller
\* 0 <= scroll_offset <= max(0, number of trades - 1).
C19_ScrollOffsetInRange ==
    /\ 0 <= scroll_offset
    /\ scroll_offset <= Max(0, Len(session.trades) - 1)

\* C20: in every state of the controller consecutive_losses is at most
\* max_consecutive_losses.
C20_LossesWithinMaximum ==
    session.consecutive_losses <= session.max_consecutive_losses

\* C20 witness: the losing streak has reached max_consecutive_losses over a
\* history with a PUSH in it, after an undo.
C20_Witness ==
    /\ session.consecutive_losses = session.max_consecutive_losses
    /\ \E i \in 1..Len(session.trades) : session.trades[i].result = "PUSH"
    /\ ops.undos > 0

====
